---------------------------- MODULE Spec2Model ----------------------------
(***************************************************************************)
(* plexer: the Pattern trait (src/src/pattern.rs) and the Lexer generated  *)
(* by the lexer! macro (src/src/lib.rs).                                   *)
(*                                                                         *)
(* A &str is a sequence of bytes; every byte is a one-character string,    *)
(* except the two bytes "C3" "A9" of the two-byte character e-acute.       *)
(* Offsets are byte offsets (0-based, as in the source); TLA+ sequences    *)
(* are 1-based, so the byte at offset i of h is h[i + 1].                  *)
(* A panic is a result with panic = TRUE: nothing is returned.             *)
(***************************************************************************)
EXTENDS Integers, Sequences, FiniteSets, TLC

VARIABLES haystack, cursor, rules, items, trace, ret, call

vars == <<haystack, cursor, rules, items, trace, ret, call>>

(***************************************************************************)
(* Bounds of the model.                                                    *)
(***************************************************************************)
\* longest enumerated haystack, in bytes
MaxLen == 3
\* largest enumerated rule set
MaxRules == 2

(***************************************************************************)
(* &str: bytes, characters and slicing.                                    *)
(***************************************************************************)
\* the two-byte character: a lead byte and a continuation byte
EAcute == <<"C3", "A9">>

IsCont(b) == b = "A9"

\* str::is_char_boundary
is_char_boundary(h, i) ==
    IF i = 0 \/ i = Len(h) THEN TRUE
    ELSE IF i > Len(h) THEN FALSE
    ELSE ~IsCont(h[i + 1])

\* &h[s..e] is valid; any other range panics
SliceOk(h, s, e) ==
    /\ s <= e
    /\ e <= Len(h)
    /\ is_char_boundary(h, s)
    /\ is_char_boundary(h, e)

Slice(h, s, e) == SubSeq(h, s + 1, e)

\* char::is_digit(10)
IsDigit(c) == c \in {"0", "1", "2", "3", "4", "5", "6", "7", "8", "9"}

\* the letters [a-zA-Z_$] that occur in the haystacks of the model
IdentStart == {"a", "x", "_", "$"}

IdentRest == IdentStart \cup {"0", "1", "2", "3", "4", "5", "6", "7", "8", "9"}

\* well-formed UTF-8 over the enumerated alphabet: strings of at most n bytes
RECURSIVE StrsUpTo(_)
StrsUpTo(n) ==
    IF n = 0 THEN {<<>>}
    ELSE LET prev == StrsUpTo(n - 1) IN
         prev
         \cup {s \o <<c>> : s \in {t \in prev : Len(t) = n - 1}, c \in {"a", "1"}}
         \cup {s \o EAcute : s \in {t \in prev : Len(t) = n - 2}}

Haystacks == StrsUpTo(MaxLen)

(***************************************************************************)
(* Match                                                                   *)
(***************************************************************************)
Match(h, s, e) == [haystack |-> h, start |-> s, end |-> e]

\* the mutant: the first assertion weakened to start <= end
Match_new_le(h, s, e) ==
    [panic |-> ~(s <= e) \/ ~(Len(h) >= e), mat |-> Match(h, s, e)]

\* Match::new: assert!(start < end); assert!(haystack.len() >= end)
Match_new(h, s, e) ==
    [panic |-> ~(s < e) \/ ~(Len(h) >= e), mat |-> Match(h, s, e)]

Match_len(m) == m.end - m.start

\* Match::as_str / to_string: &haystack[start..end]
Match_as_str(m) ==
    [panic |-> ~SliceOk(m.haystack, m.start, m.end),
     s |-> Slice(m.haystack, m.start, m.end)]

(***************************************************************************)
(* Results of the Pattern operations.                                      *)
(***************************************************************************)
Panic == [panic |-> TRUE, ms |-> <<>>]

Found(ms) == [panic |-> FALSE, ms |-> ms]

\* the mutant: every match is put in front of the ones collected before it
RECURSIVE collect_front(_, _, _)
collect_front(h, raw, acc) ==
    IF raw = <<>> THEN Found(acc)
    ELSE LET m == Match_new(h, raw[1].start, raw[1].end) IN
         IF m.panic THEN Panic
         ELSE collect_front(h, Tail(raw), <<m.mat>> \o acc)

\* .map(|..| Match::new(haystack, start, end)).collect(): the first failing
\* assertion unwinds the whole call
RECURSIVE collect(_, _, _)
collect(h, raw, acc) ==
    IF raw = <<>> THEN Found(acc)
    ELSE LET m == Match_new(h, raw[1].start, raw[1].end) IN
         IF m.panic THEN Panic
         ELSE collect(h, Tail(raw), Append(acc, m.mat))


(***************************************************************************)
(* Patterns.  A pattern value is [kind, strs, f]:                          *)
(*   "char"  : strs = <<c>>, the character c as its UTF-8 bytes            *)
(*   "str"   : strs = <<s>>                                                *)
(*   "chars" : strs = the characters of the slice, in slice order          *)
(*   "strs"  : strs = the strings of the slice, in slice order             *)
(*   "fn"    : f names the closure                                         *)
(*   "regex" : f names the regular expression                              *)
(***************************************************************************)
PChar(c) == [kind |-> "char", strs |-> <<c>>, f |-> ""]

PStr(s) == [kind |-> "str", strs |-> <<s>>, f |-> ""]

PChars(cs) == [kind |-> "chars", strs |-> cs, f |-> ""]

PStrs(ss) == [kind |-> "strs", strs |-> ss, f |-> ""]

PFn(f) == [kind |-> "fn", strs |-> <<>>, f |-> f]

PRegex(r) == [kind |-> "regex", strs |-> <<>>, f |-> r]

\* the closures: "digits" is |s| s.chars().all(|c| c.is_digit(10)),
\* "len1" is |s| s.len() == 1, "starts_a" is |s| s.starts_with("a")
Apply(f, sub) ==
    CASE f = "digits" -> \A i \in 1..Len(sub) : IsDigit(sub[i])
      [] f = "len1" -> Len(sub) = 1
      [] f = "starts_a" -> Len(sub) >= 1 /\ sub[1] = "a"
      [] OTHER -> FALSE

\* str::match_indices with a string needle: the non-overlapping occurrences,
\* left to right; the empty needle occurs, with length 0, at every character
\* boundary
RECURSIVE match_indices(_, _, _)
match_indices(h, n, pos) ==
    IF n = <<>>
    THEN IF pos > Len(h) THEN <<>>
         ELSE (IF is_char_boundary(h, pos)
               THEN <<[start |-> pos, end |-> pos]>>
               ELSE <<>>) \o match_indices(h, n, pos + 1)
    ELSE IF pos + Len(n) > Len(h) THEN <<>>
    ELSE IF SubSeq(h, pos + 1, pos + Len(n)) = n
         THEN <<[start |-> pos, end |-> pos + Len(n)]>>
              \o match_indices(h, n, pos + Len(n))
         ELSE match_indices(h, n, pos + 1)

\* impl Pattern for String (and &str, char through to_string)
String_find_in(n, h) == collect(h, match_indices(h, n, 0), <<>>)

\* the mutant: the members are tried from the last to the first
RECURSIVE slice_find_in_rev(_, _, _)
slice_find_in_rev(members, h, acc) ==
    IF members = <<>> THEN Found(acc)
    ELSE LET r == String_find_in(members[Len(members)], h) IN
         IF r.panic THEN Panic
         ELSE slice_find_in_rev(SubSeq(members, 1, Len(members) - 1), h, acc \o r.ms)

\* impl Pattern for [char] and [&str]: self.iter().flat_map(|m| m.find_in(h))
RECURSIVE slice_find_in(_, _, _)
slice_find_in(members, h, acc) ==
    IF members = <<>> THEN Found(acc)
    ELSE LET r == String_find_in(members[1], h) IN
         IF r.panic THEN Panic
         ELSE slice_find_in(Tail(members), h, acc \o r.ms)

\* impl Pattern for F: Fn(&str) -> bool, the inner while loop
RECURSIVE fn_inner(_, _, _, _, _)
fn_inner(f, h, cur_1, cur_2, matches) ==
    IF ~(cur_2 > cur_1) THEN [panic |-> FALSE, cur_1 |-> cur_1, ms |-> matches]
    ELSE IF ~SliceOk(h, cur_1, cur_2)
         THEN [panic |-> TRUE, cur_1 |-> cur_1, ms |-> <<>>]
    ELSE IF Apply(f, Slice(h, cur_1, cur_2))
         THEN LET m == Match_new(h, cur_1, cur_2) IN
              IF m.panic THEN [panic |-> TRUE, cur_1 |-> cur_1, ms |-> <<>>]
              ELSE fn_inner(f, h, cur_2, cur_2 - 1, Append(matches, m.mat))
    ELSE fn_inner(f, h, cur_1, cur_2 - 1, matches)

\* the mutant: the inner loop starts one short of the end of the haystack
RECURSIVE fn_outer_short(_, _, _, _)
fn_outer_short(f, h, cur_1, matches) ==
    IF ~(cur_1 < Len(h)) THEN Found(matches)
    ELSE LET r == fn_inner(f, h, cur_1, Len(h) - 1, matches) IN
         IF r.panic THEN Panic
         ELSE fn_outer_short(f, h, r.cur_1 + 1, r.ms)

\* impl Pattern for F: Fn(&str) -> bool, the outer while loop
RECURSIVE fn_outer(_, _, _, _)
fn_outer(f, h, cur_1, matches) ==
    IF ~(cur_1 < Len(h)) THEN Found(matches)
    ELSE LET r == fn_inner(f, h, cur_1, Len(h), matches) IN
         IF r.panic THEN Panic
         ELSE fn_outer(f, h, r.cur_1 + 1, r.ms)

Fn_find_in(f, h) == fn_outer(f, h, 0, <<>>)

\* The regular expressions: "ident" is [a-zA-Z_$][a-zA-Z_$0-9]*, "a_star" is
\* a*.  Each is one optional leading class followed by a starred class.
RegexHasHead(r) == r = "ident"

RegexHead(r) == IF r = "ident" THEN IdentStart ELSE {}

RegexTail(r) == IF r = "ident" THEN IdentRest ELSE {"a"}

\* the end of the greedy run of characters of the starred class from pos
RECURSIVE regex_run(_, _, _)
regex_run(h, r, pos) ==
    IF pos < Len(h) /\ h[pos + 1] \in RegexTail(r)
    THEN regex_run(h, r, pos + 1)
    ELSE pos

\* the end of the match anchored at s, or -1
regex_match_at(r, h, s) ==
    IF RegexHasHead(r)
    THEN IF s < Len(h) /\ h[s + 1] \in RegexHead(r)
         THEN regex_run(h, r, s + 1)
         ELSE -1
    ELSE regex_run(h, r, s)

\* Regex::find_iter: successive leftmost non-overlapping matches; an empty
\* match that touches the end of the previous match is skipped
RECURSIVE find_iter(_, _, _, _)
find_iter(r, h, pos, last) ==
    IF pos > Len(h) THEN <<>>
    ELSE IF ~is_char_boundary(h, pos) THEN find_iter(r, h, pos + 1, last)
    ELSE LET e == regex_match_at(r, h, pos) IN
         IF e = -1 THEN find_iter(r, h, pos + 1, last)
         ELSE IF e = pos /\ e = last THEN find_iter(r, h, pos + 1, last)
         ELSE <<[start |-> pos, end |-> e]>> \o find_iter(r, h, e, e)

\* impl Pattern for Regex
Regex_find_in(r, h) == collect(h, find_iter(r, h, 0, -1), <<>>)

\* Pattern::find_in, by pattern type
find_in(p, h) ==
    CASE p.kind \in {"char", "str"} -> String_find_in(p.strs[1], h)
      [] p.kind \in {"chars", "strs"} -> slice_find_in(p.strs, h, <<>>)
      [] p.kind = "fn" -> Fn_find_in(p.f, h)
      [] p.kind = "regex" -> Regex_find_in(p.f, h)

\* Pattern::find_prefixes_in
find_prefixes_in(p, h) ==
    LET r == find_in(p, h) IN
    IF r.panic THEN Panic
    ELSE Found(SelectSeq(r.ms, LAMBDA mat : mat.start = 0))

\* the mutant: every match counts as a suffix
find_suffixes_in_unfiltered(p, h) == find_in(p, h)

\* Pattern::find_suffixes_in
find_suffixes_in(p, h) ==
    LET r == find_in(p, h) IN
    IF r.panic THEN Panic
    ELSE Found(SelectSeq(r.ms, LAMBDA mat : mat.end = Len(h)))

\* .into_iter().next(): an Option as a sequence of at most one match
First(r) ==
    IF r.panic THEN Panic
    ELSE IF r.ms = <<>> THEN Found(<<>>)
    ELSE Found(<<r.ms[1]>>)

\* Pattern::find_one_in
find_one_in(p, h) == First(find_in(p, h))

\* the mutant: the first match, wherever it starts
find_prefix_in_unanchored(p, h) == First(find_in(p, h))

\* Pattern::find_prefix_in
find_prefix_in(p, h) == First(find_prefixes_in(p, h))

\* Pattern::find_suffix_in
find_suffix_in(p, h) == First(find_suffixes_in(p, h))


(***************************************************************************)
(* Tokens and builders.  A token is [name, val]: the variant and its       *)
(* payload as text (a usize payload is its decimal digits without leading  *)
(* zeros).  A builder is [name, mode, val]:                                *)
(*   "const" : |_| Token::NAME(val)                                        *)
(*   "text"  : |v: String| Token::NAME(v)                                  *)
(*   "parse" : |v: String| Token::NAME(v.parse().unwrap())                 *)
(***************************************************************************)
Token(name, val) == [name |-> name, val |-> val]

NoToken == Token("", <<>>)

\* leading zeros removed, one digit kept
RECURSIVE strip_zeros(_)
strip_zeros(v) ==
    IF Len(v) > 1 /\ v[1] = "0" THEN strip_zeros(Tail(v)) ELSE v

DigitVal(c) ==
    CASE c = "0" -> 0 [] c = "1" -> 1 [] c = "2" -> 2 [] c = "3" -> 3
      [] c = "4" -> 4 [] c = "5" -> 5 [] c = "6" -> 6 [] c = "7" -> 7
      [] c = "8" -> 8 [] c = "9" -> 9

\* usize::MAX = 18446744073709551615, as digits
UsizeMaxDigits ==
    <<"1", "8", "4", "4", "6", "7", "4", "4", "0", "7", "3", "7", "0", "9",
      "5", "5", "1", "6", "1", "5">>

\* a > b for digit strings of the same length
RECURSIVE digits_gt(_, _)
digits_gt(a, b) ==
    IF a = <<>> THEN FALSE
    ELSE IF a[1] # b[1] THEN DigitVal(a[1]) > DigitVal(b[1])
    ELSE digits_gt(Tail(a), Tail(b))

\* str::parse::<usize>: Err on the empty string, on a non-digit and on
\* overflow
parse_usize(v) ==
    IF v = <<>> \/ \E i \in 1..Len(v) : ~IsDigit(v[i])
    THEN [ok |-> FALSE, val |-> <<>>]
    ELSE LET d == strip_zeros(v) IN
         IF \/ Len(d) > Len(UsizeMaxDigits)
            \/ (Len(d) = Len(UsizeMaxDigits) /\ digits_gt(d, UsizeMaxDigits))
         THEN [ok |-> FALSE, val |-> <<>>]
         ELSE [ok |-> TRUE, val |-> d]

\* $build(mat.to_string())
Build(b, v) ==
    CASE b.mode = "const" -> [panic |-> FALSE, token |-> Token(b.name, b.val)]
      [] b.mode = "text" -> [panic |-> FALSE, token |-> Token(b.name, v)]
      [] b.mode = "parse" ->
            LET n == parse_usize(v) IN
            [panic |-> ~n.ok, token |-> Token(b.name, n.val)]

Rule(p, b) == [pattern |-> p, build |-> b]

(***************************************************************************)
(* The rule sets.                                                          *)
(***************************************************************************)
\* the lexer! invocation of the crate documentation
ArithRules ==
    << Rule(PChar(<<"+">>), [name |-> "OPERATOR", mode |-> "const", val |-> <<"+">>]),
       Rule(PChar(<<"-">>), [name |-> "OPERATOR", mode |-> "const", val |-> <<"-">>]),
       Rule(PChar(<<"*">>), [name |-> "OPERATOR", mode |-> "const", val |-> <<"*">>]),
       Rule(PChar(<<"/">>), [name |-> "OPERATOR", mode |-> "const", val |-> <<"/">>]),
       Rule(PChar(<<"=">>), [name |-> "OPERATOR", mode |-> "const", val |-> <<"=">>]),
       Rule(PFn("digits"), [name |-> "NUMBER", mode |-> "parse", val |-> <<>>]),
       Rule(PRegex("ident"), [name |-> "IDENTIFIER", mode |-> "text", val |-> <<>>]),
       Rule(PChars(<< <<" ">>, <<"\n">> >>),
            [name |-> "WHITESPACE", mode |-> "const", val |-> <<>>]) >>

\* "x_4 = 1 + 3 = 2 * 2"
ArithInput ==
    <<"x", "_", "4", " ", "=", " ", "1", " ", "+", " ", "3", " ", "=", " ",
      "2", " ", "*", " ", "2">>

\* "x_4 = (1 + 3)"
ArithErrInput ==
    <<"x", "_", "4", " ", "=", " ", "(", "1", " ", "+", " ", "3", ")">>

\* the patterns of the enumerated rule sets: every pattern type, the empty
\* string and a regular expression that matches the empty string included
Patterns ==
    { PChar(<<"a">>), PChar(EAcute),
      PStr(<<"a", "1">>), PStr(<<>>),
      PChars(<< <<"1">>, <<"a">> >>),
      PStrs(<< <<"a">>, <<"a", "1">> >>),
      PFn("digits"), PFn("len1"),
      PRegex("ident"), PRegex("a_star") }

\* rule i of an enumerated rule set builds its own variant from the text
TokenName(i) == <<"T1", "T2", "T3", "T4">>[i]

RuleSets ==
    UNION { { [i \in 1..n |-> Rule(ps[i], [name |-> TokenName(i), mode |-> "text",
                                         val |-> <<>>])] :
              ps \in [1..n -> Patterns] } : n \in 1..MaxRules }


(***************************************************************************)
(* The Lexer generated by lexer!.                                          *)
(***************************************************************************)
MAX_LENGTH == 1024

Min(a, b) == IF a < b THEN a ELSE b

\* LexerError::new
LexerError(h, c) == [haystack |-> h, cursor |-> c]

NoError == LexerError(<<>>, 0)

\* Display for LexerError: the parts of the message, or a panic when
\* haystack[cursor..=cursor] is not a slice on character boundaries
LexerError_fmt(e) ==
    IF ~SliceOk(e.haystack, e.cursor, e.cursor + 1)
    THEN [panic |-> TRUE, msg |-> <<>>]
    ELSE [panic |-> FALSE,
          msg |-> <<"unexpected character '", Slice(e.haystack, e.cursor, e.cursor + 1),
                    "' at index ", e.cursor>>]

\* LexerResult: Ok(token) or Err(error)
Ok(t) == [tag |-> "Ok", token |-> t, error |-> NoError]

Err(e) == [tag |-> "Err", token |-> NoToken, error |-> e]

\* the mutant: a match as long as the best so far replaces it
longer_ge(matlen, len) == matlen >= len

\* if mat.len() > len
longer(matlen, len) == matlen > len

\* the mutant: the cursor advances by len alone
advance_len(len) == len

\* std::cmp::max(len, 1)
advance(len) == IF len > 1 THEN len ELSE 1

\* the mutant: the error records the cursor after the step
error_offset_after(c) == c

\* self.cursor - 1, evaluated after the cursor has advanced
error_offset(c) == c - 1

\* the mutant: a step is taken at the end of the haystack too
in_haystack_le(c, h) == c <= Len(h)

\* if self.cursor < self.haystack.len()
in_haystack(c, h) == c < Len(h)

NoBest == [panic |-> FALSE, some |-> FALSE, token |-> NoToken, len |-> 0]

BestPanic == [panic |-> TRUE, some |-> FALSE, token |-> NoToken, len |-> 0]

\* the rule blocks the macro expands to, rule i onwards, in declared order;
\* best is token and len after the blocks before i
RECURSIVE scan_rules(_, _, _, _, _, _)
scan_rules(rs, i, h, start, end, best) ==
    IF i > Len(rs) THEN best
    ELSE IF ~SliceOk(h, start, end) THEN BestPanic
    ELSE LET r == find_prefix_in(rs[i].pattern, Slice(h, start, end)) IN
         IF r.panic THEN BestPanic
         ELSE IF r.ms # <<>> /\ longer(Match_len(r.ms[1]), best.len)
         THEN LET v == Match_as_str(r.ms[1])
                  b == Build(rs[i].build, v.s)
              IN  IF v.panic \/ b.panic THEN BestPanic
                  ELSE scan_rules(rs, i + 1, h, start, end,
                                  [panic |-> FALSE, some |-> TRUE,
                                   token |-> b.token, len |-> Match_len(r.ms[1])])
         ELSE scan_rules(rs, i + 1, h, start, end, best)

\* Lexer::next on the state (h, c): panic, or Some(item) with the new cursor
\* and the length matched, or None
Lexer_next(rs, h, c) ==
    IF in_haystack(c, h)
    THEN LET start == c
             end == Min(Len(h), c + MAX_LENGTH)
             best == scan_rules(rs, 1, h, start, end, NoBest)
             nc == c + advance(best.len)
         IN  IF best.panic
             THEN [panic |-> TRUE, some |-> FALSE, cursor |-> c, item |-> Ok(NoToken),
                   len |-> 0]
             ELSE [panic |-> FALSE, some |-> TRUE, cursor |-> nc,
                   item |-> IF best.some THEN Ok(best.token)
                            ELSE Err(LexerError(h, error_offset(nc))),
                   len |-> best.len]
    ELSE [panic |-> FALSE, some |-> FALSE, cursor |-> c, item |-> Ok(NoToken),
          len |-> 0]

\* Token::tokenize(h) iterated to its end from cursor c: the items, the
\* cursor before each step, and whether a step panicked
RECURSIVE run(_, _, _, _, _)
run(rs, h, c, acc, cs) ==
    LET r == Lexer_next(rs, h, c) IN
    IF r.panic THEN [panic |-> TRUE, items |-> acc, cursors |-> cs]
    ELSE IF r.some THEN run(rs, h, r.cursor, Append(acc, r.item), Append(cs, c))
    ELSE [panic |-> FALSE, items |-> acc, cursors |-> cs]

\* a lexer of one rule whose predicate holds of every string that starts
\* with "a", however long
LongRules == << Rule(PFn("starts_a"), [name |-> "T1", mode |-> "text", val |-> <<>>]) >>

\* haystacks one byte longer than the window: "a" MAX_LENGTH + 1 times;
\* "a" MAX_LENGTH times and a "1"; "a" and MAX_LENGTH / 2 two-byte characters
LongInputs ==
    { [i \in 1..(MAX_LENGTH + 1) |-> "a"],
      [i \in 1..(MAX_LENGTH + 1) |-> IF i <= MAX_LENGTH THEN "a" ELSE "1"],
      [i \in 1..(MAX_LENGTH + 1) |-> IF i = 1 THEN "a" ELSE EAcute[1 + (i % 2)]] }

(***************************************************************************)
(* The state.                                                              *)
(*   haystack, cursor : the fields of the Lexer                            *)
(*   rules            : the rules of the lexer! invocation                 *)
(*   items            : the items next has returned, in order              *)
(*   trace            : for each item, the cursor before its step and the  *)
(*                      length matched (0 when no rule matched)            *)
(*   ret              : how the latest next call ended                     *)
(*   call             : the pattern and haystack of the Pattern API calls   *)
(*                      and the latest call with what it returned          *)
(***************************************************************************)
\* a call op(pattern, haystack) or Match::new(haystack, start, end) and what
\* it returned
CallOf(op, p, h, s, e, res) ==
    [op |-> op, pattern |-> p, haystack |-> h, start |-> s, end |-> e, res |-> res]

NoCall == CallOf("", PStr(<<>>), <<>>, 0, 0, Found(<<>>))

\* Token::tokenize(h) under the rule set rs
tokenize(rs, h) ==
    /\ haystack = h
    /\ cursor = 0
    /\ rules = rs
    /\ items = <<>>
    /\ trace = <<>>
    /\ ret = "init"
    /\ call = NoCall

Init ==
    \/ \E rs \in RuleSets, h \in Haystacks : tokenize(rs, h)
    \/ \E h \in {ArithInput, ArithErrInput} : tokenize(ArithRules, h)
    \/ \E h \in LongInputs : tokenize(LongRules, h)

\* one call of Lexer::next; after a panic the lexer is gone
next ==
    /\ ret # "panic"
    /\ LET r == Lexer_next(rules, haystack, cursor) IN
       IF r.panic
       THEN /\ ret' = "panic"
            /\ UNCHANGED <<cursor, items, trace>>
       ELSE IF r.some
       THEN /\ cursor' = r.cursor
            /\ items' = Append(items, r.item)
            /\ trace' = Append(trace, [at |-> cursor, len |-> r.len])
            /\ ret' = "Some"
       ELSE /\ ret' = "None"
            /\ UNCHANGED <<cursor, items, trace>>
    /\ UNCHANGED <<haystack, rules, call>>

Next == next

Spec == Init /\ [][Next]_vars

(***************************************************************************)
(* The Pattern API called directly.                                        *)
(***************************************************************************)
\* the patterns the API is called with: those of the rule sets and one more
\* closure
PatPatterns == Patterns \cup {PFn("starts_a")}

\* no lexer; a pattern and a haystack to call the API with
PatInit ==
    /\ haystack = <<>>
    /\ cursor = 0
    /\ rules = <<>>
    /\ items = <<>>
    /\ trace = <<>>
    /\ ret = "init"
    /\ \E p \in PatPatterns, h \in Haystacks : call = CallOf("", p, h, 0, 0, Found(<<>>))

call_Match_new ==
    /\ \E s \in 0..(MaxLen + 1), e \in 0..(MaxLen + 1) :
          LET m == Match_new(call.haystack, s, e) IN
          call' = CallOf("Match::new", call.pattern, call.haystack, s, e,
                         IF m.panic THEN Panic ELSE Found(<<m.mat>>))
    /\ UNCHANGED <<haystack, cursor, rules, items, trace, ret>>

call_find_in ==
    /\ call' = CallOf("find_in", call.pattern, call.haystack, 0, 0,
                      find_in(call.pattern, call.haystack))
    /\ UNCHANGED <<haystack, cursor, rules, items, trace, ret>>

call_find_one_in ==
    /\ call' = CallOf("find_one_in", call.pattern, call.haystack, 0, 0,
                      find_one_in(call.pattern, call.haystack))
    /\ UNCHANGED <<haystack, cursor, rules, items, trace, ret>>

call_find_prefixes_in ==
    /\ call' = CallOf("find_prefixes_in", call.pattern, call.haystack, 0, 0,
                      find_prefixes_in(call.pattern, call.haystack))
    /\ UNCHANGED <<haystack, cursor, rules, items, trace, ret>>

call_find_prefix_in ==
    /\ call' = CallOf("find_prefix_in", call.pattern, call.haystack, 0, 0,
                      find_prefix_in(call.pattern, call.haystack))
    /\ UNCHANGED <<haystack, cursor, rules, items, trace, ret>>

call_find_suffixes_in ==
    /\ call' = CallOf("find_suffixes_in", call.pattern, call.haystack, 0, 0,
                      find_suffixes_in(call.pattern, call.haystack))
    /\ UNCHANGED <<haystack, cursor, rules, items, trace, ret>>

call_find_suffix_in ==
    /\ call' = CallOf("find_suffix_in", call.pattern, call.haystack, 0, 0,
                      find_suffix_in(call.pattern, call.haystack))
    /\ UNCHANGED <<haystack, cursor, rules, items, trace, ret>>

PatNext ==
    \/ call_Match_new
    \/ call_find_in
    \/ call_find_one_in
    \/ call_find_prefixes_in
    \/ call_find_prefix_in
    \/ call_find_suffixes_in
    \/ call_find_suffix_in

PatSpec == PatInit /\ [][PatNext]_vars


(***************************************************************************)
(* Definitions the properties share.                                       *)
(***************************************************************************)
\* the window of the step that starts at cursor c
WindowAt(c) == Slice(haystack, c, Min(Len(haystack), c + MAX_LENGTH))

\* the length of rule i's prefix match in the window at c; 0 when it has none
PrefixLenAt(i, c) ==
    LET r == find_prefix_in(rules[i].pattern, WindowAt(c)) IN
    IF r.panic \/ r.ms = <<>> THEN 0 ELSE Match_len(r.ms[1])

\* the prefix-match length of every rule in the window at c
PrefixLens(c) == [i \in 1..Len(rules) |-> PrefixLenAt(i, c)]

\* the greatest of the lengths; 0 when there is none
MaxOf(lens) ==
    LET all == {lens[i] : i \in DOMAIN lens} \cup {0} IN
    CHOOSE m \in all : \A n \in all : n <= m

\* the rules whose length is the greatest
Longest(lens) == {i \in DOMAIN lens : lens[i] = MaxOf(lens)}

\* the earliest rule among those whose length is the greatest
FirstLongest(lens) ==
    LET best == Longest(lens) IN CHOOSE i \in best : \A j \in best : i <= j

\* the greatest prefix-match length over all rules in the window at c
MaxPrefixLenAt(c) == MaxOf(PrefixLens(c))

(***************************************************************************)
(* C1.  Longest match, first rule wins ties: every item produced by a step *)
(* in which some rule has a prefix match is the token built, from the      *)
(* longest prefix match, by the earliest rule among those whose prefix     *)
(* match is longest.                                                       *)
(***************************************************************************)
C1_LongestFirstRule ==
    \A k \in 1..Len(items) :
        LET c == trace[k].at
            lens == PrefixLens(c)
            m == MaxOf(lens)
        IN  m > 0 =>
              items[k] = Ok(Build(rules[FirstLongest(lens)].build,
                                  Slice(haystack, c, c + m)).token)

\* a token was produced at a cursor where two rules tie on the longest match
C1_Witness ==
    \E k \in 1..Len(items) :
        LET lens == PrefixLens(trace[k].at) IN
        /\ MaxOf(lens) > 0
        /\ Cardinality(Longest(lens)) >= 2
        /\ items[k].tag = "Ok"
        /\ items[k].token.name = TokenName(FirstLongest(lens))

(***************************************************************************)
(* C2.  Forward progress: every next call made while cursor < len(haystack)*)
(* produces exactly one item and increases the cursor by at least 1.       *)
(***************************************************************************)
C2_ForwardProgress ==
    [][cursor < Len(haystack) =>
          /\ Len(items') = Len(items) + 1
          /\ cursor' >= cursor + 1]_vars

(***************************************************************************)
(* C3.  Skip-and-report: the item of a step in which no rule has a prefix  *)
(* match at cursor c is an error with offset c, the cursor becomes c + 1,  *)
(* and the next step scans from c + 1 without the scan being aborted.      *)
(***************************************************************************)
C3_SkipAndReport ==
    \A k \in 1..Len(items) :
        MaxPrefixLenAt(trace[k].at) = 0 =>
            /\ items[k] = Err(LexerError(haystack, trace[k].at))
            /\ k < Len(items) => trace[k + 1].at = trace[k].at + 1
            /\ k = Len(items) => (cursor = trace[k].at + 1 /\ ret # "panic")

(***************************************************************************)
(* C4.  No input is dropped and items come in input order: the spans of    *)
(* the items (the matched text of a token, the one unit at the offset of   *)
(* an error) are not empty, start at 0, follow one another without a gap   *)
(* and end at the cursor; a built token carries the text of its span; and  *)
(* when the sequence has ended the spans cover the whole haystack.         *)
(***************************************************************************)
SpanStart(k) ==
    IF items[k].tag = "Ok" THEN trace[k].at ELSE items[k].error.cursor

SpanEnd(k) ==
    IF items[k].tag = "Ok" THEN trace[k].at + trace[k].len
    ELSE items[k].error.cursor + 1

\* the end of the span of the latest item; 0 before the first
Consumed == IF items = <<>> THEN 0 ELSE SpanEnd(Len(items))

RECURSIVE ConcatSpans(_)
ConcatSpans(k) ==
    IF k = 0 THEN <<>>
    ELSE ConcatSpans(k - 1) \o Slice(haystack, SpanStart(k), SpanEnd(k))

C4_NoInputDropped ==
    /\ items # <<>> => SpanStart(1) = 0
    /\ \A k \in 1..Len(items) :
          /\ SpanStart(k) < SpanEnd(k)
          /\ SpanEnd(k) <= Len(haystack)
          /\ k < Len(items) => SpanStart(k + 1) = SpanEnd(k)
          /\ (items[k].tag = "Ok" /\ rules[1].build.mode = "text") =>
                items[k].token.val = Slice(haystack, SpanStart(k), SpanEnd(k))
    /\ Consumed = cursor
    /\ ConcatSpans(Len(items)) = SubSeq(haystack, 1, cursor)
    /\ ret = "None" => ConcatSpans(Len(items)) = haystack

\* the sequence has ended after a token, an error and another token
C4_Witness ==
    /\ ret = "None"
    /\ Len(items) >= 3
    /\ \E k \in 2..Len(items) : items[k].tag = "Err" /\ items[k - 1].tag = "Ok"
    /\ items[Len(items)].tag = "Ok"

(***************************************************************************)
(* C5.  No next call panics, for any haystack and any rule set built from  *)
(* the supported matcher kinds.                                            *)
(***************************************************************************)
C5_NoPanic == ret # "panic"

(***************************************************************************)
(* C8.  The arithmetic lexer on "x_4 = 1 + 3 = 2 * 2".                     *)
(***************************************************************************)
OperatorEq == Ok(Token("OPERATOR", <<"=">>))

Number3 == Ok(Token("NUMBER", <<"3">>))

\* C8 as claimed: the item at index 2 is the operator '=' and the item at
\* index 5 is the number 3
C8_Index2And5 ==
    (haystack = ArithInput /\ rules = ArithRules) =>
        /\ Len(items) >= 3 => items[3] = OperatorEq
        /\ Len(items) >= 6 => items[6] = Number3

\* C8 as amended: the item at index 2 is the operator '=' and the item at
\* index 8 (what a second nth(5) returns after nth(2)) is the number 3
C8_Index2And8 ==
    (haystack = ArithInput /\ rules = ArithRules) =>
        /\ Len(items) >= 3 => items[3] = OperatorEq
        /\ Len(items) >= 9 => items[9] = Number3
        /\ ret = "None" => Len(items) >= 9
        /\ ret # "panic"

\* the arithmetic lexer has produced the item at index 8
C8_Witness == haystack = ArithInput /\ rules = ArithRules /\ Len(items) >= 9

(***************************************************************************)
(* C9.  Recovery around one malformed unit.                                *)
(***************************************************************************)
\* h tokenizes with no error: the iteration ends and every item is a token
TokenizesClean(h) ==
    LET r == run(rules, h, 0, <<>>, <<>>) IN
    ~r.panic /\ \A k \in 1..Len(r.items) : r.items[k].tag = "Ok"

\* every rule returns no prefix match in the window of the haystack at c
NoPrefixMatchAt(c) ==
    /\ SliceOk(haystack, c, Min(Len(haystack), c + MAX_LENGTH))
    /\ \A i \in 1..Len(rules) :
          find_prefix_in(rules[i].pattern, WindowAt(c)) = Found(<<>>)

\* the haystack is A u B with A its first n bytes, u one unit at which no
\* rule has a prefix match, and A and B tokenizing with no error
Malformed(n) ==
    /\ n + 1 <= Len(haystack)
    /\ is_char_boundary(haystack, n)
    /\ is_char_boundary(haystack, n + 1)
    /\ NoPrefixMatchAt(n)
    /\ TokenizesClean(SubSeq(haystack, 1, n))
    /\ TokenizesClean(SubSeq(haystack, n + 2, Len(haystack)))

\* the items C9 expects: the tokens of A, one error at len(A), the tokens of B
Recovered(n) ==
    run(rules, SubSeq(haystack, 1, n), 0, <<>>, <<>>).items
    \o <<Err(LexerError(haystack, n))>>
    \o run(rules, SubSeq(haystack, n + 2, Len(haystack)), 0, <<>>, <<>>).items

IsPrefix(s, t) == Len(s) <= Len(t) /\ s = SubSeq(t, 1, Len(s))

\* the items so far are the first of the expected ones, no step panics, and
\* the sequence ends with all of them
Yields(expected) ==
    /\ IsPrefix(items, expected)
    /\ ret # "panic"
    /\ ret = "None" => items = expected

\* C9 as claimed
C9_Recovery ==
    \A n \in 0..Len(haystack) : Malformed(n) => Yields(Recovered(n))

\* at every cursor the scan of A stops at, each rule's prefix match in the
\* haystack is its prefix match in A alone
SameMatchesInside(n) ==
    LET A == SubSeq(haystack, 1, n)
        cs == run(rules, A, 0, <<>>, <<>>).cursors
    IN  \A k \in 1..Len(cs) : \A i \in 1..Len(rules) :
            LET inA == find_prefix_in(rules[i].pattern,
                                      Slice(A, cs[k], Min(Len(A), cs[k] + MAX_LENGTH)))
                inH == find_prefix_in(rules[i].pattern, WindowAt(cs[k]))
            IN  /\ ~inH.panic
                /\ Len(inH.ms) = Len(inA.ms)
                /\ inA.ms # <<>> => Match_len(inH.ms[1]) = Match_len(inA.ms[1])

\* C9 as amended: the same, for the A in which no rule's prefix match
\* changes when u B follows A
C9_RecoveryNoCrossing ==
    \A n \in 0..Len(haystack) :
        (Malformed(n) /\ SameMatchesInside(n)) => Yields(Recovered(n))

\* the sequence has ended on a haystack A u B with A and B not empty
C9_Witness ==
    /\ ret = "None"
    /\ \E n \in 1..(Len(haystack) - 2) :
          /\ Malformed(n)
          /\ SameMatchesInside(n)
          /\ items = Recovered(n)

(***************************************************************************)
(* C6.  The order of find_in.                                              *)
(***************************************************************************)
Ascending(ms) == \A i \in 1..(Len(ms) - 1) : ms[i].start <= ms[i + 1].start

StrictlyAscending(ms) == \A i \in 1..(Len(ms) - 1) : ms[i].start < ms[i + 1].start

\* no match of ms starts before m
Leftmost(m, ms) == \A i \in 1..Len(ms) : m.start <= ms[i].start

IsSlice(p) == p.kind \in {"chars", "strs"}

\* C6 as claimed: for every matcher kind the result of find_in is ordered by
\* start ascending, and find_one_in returns the match with the smallest start
C6_FindInAscending ==
    /\ (call.op = "find_in" /\ ~call.res.panic) => Ascending(call.res.ms)
    /\ (call.op = "find_one_in" /\ ~call.res.panic /\ call.res.ms # <<>>) =>
          Leftmost(call.res.ms[1], find_in(call.pattern, call.haystack).ms)

\* the concatenation, in member order, of each member's own matches
RECURSIVE MemberMatches(_, _)
MemberMatches(members, h) ==
    IF members = <<>> THEN <<>>
    ELSE find_in(PStr(members[1]), h).ms \o MemberMatches(Tail(members), h)

\* C6 as amended: the result of find_in is ordered by start ascending for a
\* character, a string, a predicate and a regular expression, and there
\* find_one_in returns the match with the smallest start; for a set it is
\* the members' ascending results one after the other in member order, and
\* find_one_in returns the first of them
C6_FindInAscendingPerMember ==
    /\ (call.op = "find_in" /\ ~call.res.panic /\ ~IsSlice(call.pattern)) =>
          StrictlyAscending(call.res.ms)
    /\ (call.op = "find_in" /\ ~call.res.panic /\ IsSlice(call.pattern)) =>
          /\ call.res.ms = MemberMatches(call.pattern.strs, call.haystack)
          /\ \A i \in 1..Len(call.pattern.strs) :
                StrictlyAscending(find_in(PStr(call.pattern.strs[i]), call.haystack).ms)
    /\ (call.op = "find_one_in" /\ ~call.res.panic /\ call.res.ms # <<>>) =>
          /\ call.res.ms[1] = find_in(call.pattern, call.haystack).ms[1]
          /\ ~IsSlice(call.pattern) =>
                Leftmost(call.res.ms[1], find_in(call.pattern, call.haystack).ms)

\* find_in has returned two matches or more of a pattern that is not a set
C6_Witness ==
    /\ call.op = "find_in"
    /\ ~call.res.panic
    /\ ~IsSlice(call.pattern)
    /\ Len(call.res.ms) >= 2

(***************************************************************************)
(* C7.  The predicate matcher resumes at the end of a match: when a        *)
(* substring that starts at the end e of a recorded match satisfies f, the *)
(* next match starts at e; a predicate true of the one-byte strings        *)
(* matches every byte of the haystack.                                     *)
(***************************************************************************)
\* some substring of h starting at s satisfies f
SatisfiedFrom(f, h, s) ==
    \E e \in (s + 1)..Len(h) : SliceOk(h, s, e) /\ Apply(f, Slice(h, s, e))

C7_ResumesAtMatchEnd ==
    (call.op = "find_in" /\ call.pattern.kind = "fn" /\ ~call.res.panic) =>
        /\ \A i \in 1..Len(call.res.ms) :
              SatisfiedFrom(call.pattern.f, call.haystack, call.res.ms[i].end) =>
                  /\ i < Len(call.res.ms)
                  /\ call.res.ms[i + 1].start = call.res.ms[i].end
        /\ call.pattern.f = "len1" =>
              call.res.ms = [i \in 1..Len(call.haystack) |->
                                Match(call.haystack, i - 1, i)]

C11_CursorBounds ==
    /\ [](/\ 0 <= cursor
          /\ cursor <= Len(haystack)
          /\ ret = "init" => (cursor = 0 /\ items = <<>>))
    /\ [][/\ cursor' >= cursor
          /\ haystack' = haystack
          /\ cursor = Len(haystack) =>
                /\ ret' = "None"
                /\ cursor' = cursor
                /\ items' = items]_vars

\* next has returned None after the cursor walked to the end of a haystack
\* that is not empty
C11_Witness ==
    /\ ret = "None"
    /\ cursor = Len(haystack)
    /\ cursor > 0
    /\ items # <<>>

(***************************************************************************)
(* C12.  Prefix/suffix consistency: every match find_prefix_in or          *)
(* find_prefixes_in returns is an element of find_in(haystack) and has     *)
(* start = 0; every match find_suffix_in or find_suffixes_in returns is an *)
(* element of find_in(haystack) and has end = len(haystack); and           *)
(* find_prefix_in returns none exactly when find_in has no element with    *)
(* start = 0.                                                              *)
(***************************************************************************)
\* the matches of a result, as a set
Elements(r) == {r.ms[i] : i \in 1..Len(r.ms)}

C12_PrefixSuffixConsistency ==
    LET all == find_in(call.pattern, call.haystack) IN
    /\ (call.op \in {"find_prefix_in", "find_prefixes_in"} /\ ~call.res.panic) =>
          /\ ~all.panic
          /\ \A m \in Elements(call.res) : m \in Elements(all) /\ m.start = 0
    /\ (call.op \in {"find_suffix_in", "find_suffixes_in"} /\ ~call.res.panic) =>
          /\ ~all.panic
          /\ \A m \in Elements(call.res) :
                m \in Elements(all) /\ m.end = Len(call.haystack)
    /\ (call.op = "find_prefix_in" /\ ~call.res.panic) =>
          (call.res.ms = <<>> <=> \A m \in Elements(all) : m.start # 0)
    /\ call.op \in {"find_prefix_in", "find_prefixes_in", "find_suffix_in",
                    "find_suffixes_in"} => (call.res.panic <=> all.panic)

\* find_suffix_in has returned a match that is not the first of find_in
C12_Witness ==
    /\ call.op = "find_suffix_in"
    /\ ~call.res.panic
    /\ call.res.ms # <<>>
    /\ call.res.ms[1].start > 0
    /\ Len(find_in(call.pattern, call.haystack).ms) >= 2

(***************************************************************************)
(* C13.  The arithmetic lexer on "x_4 = (1 + 3)": the items at indices 0   *)
(* to 3 are tokens, the item at index 4 is an error whose offset is 6, the *)
(* '(' character, and scanning continues after it: the next item is the    *)
(* number 1.                                                               *)
(***************************************************************************)
Number1 == Ok(Token("NUMBER", <<"1">>))

C13_ArithErrorScenario ==
    (haystack = ArithErrInput /\ rules = ArithRules) =>
        /\ ret # "panic"
        /\ \A k \in 1..Len(items) :
              /\ k <= 4 => items[k].tag = "Ok"
              /\ k = 5 =>
                    /\ items[k] = Err(LexerError(ArithErrInput, 6))
                    /\ LexerError_fmt(items[k].error) =
                          [panic |-> FALSE,
                           msg |-> <<"unexpected character '", <<"(">>,
                                     "' at index ", 6>>]
                    /\ trace[k] = [at |-> 6, len |-> 0]
              /\ k = 6 => items[k] = Number1 /\ trace[k].at = 7

\* the item after the error has been returned
C13_Witness ==
    /\ haystack = ArithErrInput
    /\ rules = ArithRules
    /\ Len(items) >= 6
    /\ items[5].tag = "Err"

(***************************************************************************)
(* C14.  Bounded lookahead window: the rules are matched against           *)
(* haystack[cursor .. min(cursor + 1024, len(haystack))] only, so the      *)
(* text of every token is a rule's prefix match in that window, at most    *)
(* 1024 long and ending at or before the window's end; and a run that a    *)
(* rule would match for more than the window length is emitted as several  *)
(* consecutive tokens.                                                     *)
(***************************************************************************)
\* the end of the window of the step that starts at c
WindowEnd(c) == Min(c + MAX_LENGTH, Len(haystack))

\* some rule's prefix match in the whole rest of the haystack from c is
\* longer than the window
LongRunAt(c) ==
    /\ Len(haystack) - c > MAX_LENGTH
    /\ SliceOk(haystack, c, Len(haystack))
    /\ \E i \in 1..Len(rules) :
          LET r == find_prefix_in(rules[i].pattern, Slice(haystack, c, Len(haystack)))
          IN  ~r.panic /\ r.ms # <<>> /\ Match_len(r.ms[1]) > MAX_LENGTH

\* every token is a rule's prefix match in the window of its step
TokensFromWindow ==
    \A k \in 1..Len(items) :
        items[k].tag = "Ok" =>
            /\ trace[k].len >= 1
            /\ trace[k].len <= MAX_LENGTH
            /\ trace[k].at + trace[k].len <= WindowEnd(trace[k].at)
            /\ \E i \in 1..Len(rules) : PrefixLenAt(i, trace[k].at) = trace[k].len

\* the step at a long run and the step after it return tokens
LongRunsSplit ==
    /\ LongRunAt(cursor) => ret # "panic"
    /\ \A k \in 1..Len(items) :
          LongRunAt(trace[k].at) =>
              /\ items[k].tag = "Ok"
              /\ ret # "panic"
              /\ k < Len(items) => items[k + 1].tag = "Ok"

C14_BoundedWindow == TokensFromWindow /\ LongRunsSplit

(***************************************************************************)
(* C15.  The result of the predicate matcher: each match [s, e) satisfies  *)
(* f(h[s..e]) and is maximal at its start; the matches are in strictly     *)
(* increasing start order and do not overlap; the first match is the       *)
(* leftmost one; and the scan loop terminates: every pass of the outer     *)
(* loop moves cur_1 forward and never beyond len(h) + 1.                   *)
(***************************************************************************)
\* f holds of h[s..e]
Satisfies(f, h, s, e) == SliceOk(h, s, e) /\ Apply(f, Slice(h, s, e))

C15_PredicateMatchShape ==
    (call.op = "find_in" /\ call.pattern.kind = "fn" /\ ~call.res.panic) =>
        LET f == call.pattern.f
            h == call.haystack
            ms == call.res.ms
        IN  /\ \A i \in 1..Len(ms) :
                  /\ Satisfies(f, h, ms[i].start, ms[i].end)
                  /\ \A e \in (ms[i].end + 1)..Len(h) : ~Satisfies(f, h, ms[i].start, e)
            /\ \A i \in 1..(Len(ms) - 1) :
                  /\ ms[i].start < ms[i + 1].start
                  /\ ms[i].end <= ms[i + 1].start
            /\ ms # <<>> =>
                  \A s \in 0..(ms[1].start - 1) : ~SatisfiedFrom(f, h, s)
            /\ ms = <<>> =>
                  \A s \in 0..(Len(h) - 1) : ~SatisfiedFrom(f, h, s)
            /\ Len(ms) <= Len(h)
            /\ \A c \in 0..(Len(h) - 1) :
                  LET r == fn_inner(f, h, c, Len(h), <<>>) IN
                  ~r.panic => (c <= r.cur_1 /\ r.cur_1 <= Len(h))

\* the one match of a predicate starts after the start of the haystack and
\* is longer than one byte
C15_Witness ==
    /\ call.op = "find_in"
    /\ call.pattern.kind = "fn"
    /\ ~call.res.panic
    /\ call.res.ms # <<>>
    /\ call.res.ms[1].start > 0
    /\ Match_len(call.res.ms[1]) >= 2

(***************************************************************************)
(* C16.  Set patterns do not pick the longest member: find_in of a set is  *)
(* the concatenation, in member order, of each member's own find_in        *)
(* result, so find_prefix_in returns the prefix match of the earliest      *)
(* member that is a prefix of the haystack, even when a later member is a  *)
(* longer prefix (the set ["a", "ab"] on "ab" gives [0, 1)); a rule whose  *)
(* pattern is a set competes with that member's length only.               *)
(***************************************************************************)
\* the members of the set that are prefixes of w, by position
PrefixMembers(members, w) == {j \in 1..Len(members) : IsPrefix(members[j], w)}

\* the earliest of them
FirstMember(members, w) ==
    LET hits == PrefixMembers(members, w) IN
    members[CHOOSE j \in hits : \A n \in hits : j <= n]

C16_SetFirstMember ==
    /\ find_prefix_in(PStrs(<< <<"a">>, <<"a", "b">> >>), <<"a", "b">>) =
          Found(<< Match(<<"a", "b">>, 0, 1) >>)
    /\ \A k \in 1..Len(items) : \A i \in 1..Len(rules) :
          IsSlice(rules[i].pattern) =>
              LET w == WindowAt(trace[k].at)
                  members == rules[i].pattern.strs
                  all == find_in(rules[i].pattern, w)
                  first == find_prefix_in(rules[i].pattern, w)
              IN  /\ ~all.panic
                  /\ all.ms = MemberMatches(members, w)
                  /\ first.ms = IF PrefixMembers(members, w) = {} THEN <<>>
                                ELSE <<Match(w, 0, Len(FirstMember(members, w)))>>
                  /\ (items[k].tag = "Ok" /\ items[k].token.name = rules[i].build.name) =>
                        /\ PrefixMembers(members, w) # {}
                        /\ trace[k].len = Len(FirstMember(members, w))

\* a set rule has produced a token from its first member although a later
\* member is a longer prefix of the window
C16_Witness ==
    \E k \in 1..Len(items) : \E i \in 1..Len(rules) :
        LET w == WindowAt(trace[k].at)
            members == rules[i].pattern.strs
        IN  /\ IsSlice(rules[i].pattern)
            /\ items[k].tag = "Ok"
            /\ items[k].token.name = rules[i].build.name
            /\ \E j \in PrefixMembers(members, w) :
                  Len(members[j]) > Len(FirstMember(members, w))
            /\ items[k].token.val = FirstMember(members, w)

=============================================================================
